---- MODULE Spec2Model ----
(***************************************************************************)
(* Notes MCP server (src/src/index.ts): the in-memory note collection and  *)
(* the request handlers that read and change it.                           *)
(*                                                                         *)
(* JavaScript values are tagged records.  A string is a sequence of        *)
(* tokens: every character the client sends is one token, and every        *)
(* literal fragment of a template string in the source is one token.       *)
(* The clock counts milliseconds since the epoch; the model runs in the    *)
(* first minute of 1970, where Date.now().toString() and toISOString()     *)
(* are the conversions written below.                                      *)
(***************************************************************************)
EXTENDS Integers, Sequences, FiniteSets, TLC

VARIABLES
    notes,       \* the Map `notes`: its entries in insertion order
    clock,       \* the latest reading of the system clock (ms)
    last,        \* the request handled last and the response returned for it
    issuedIds,   \* history: ids reported by create_note so far
    deletedIds,  \* history: ids removed by delete_note and not created again since
    pending      \* tools/call requests that arrived and whose handler has not run yet

vars == <<notes, clock, last, issuedIds, deletedIds, pending>>

(* ------------------------------ bounds -------------------------------- *)

MaxClock == 2

MaxPending == 2

(* -------------------------- JavaScript values -------------------------- *)

Undefined == [t |-> "undefined"]
Null == [t |-> "null"]
Str(s) == [t |-> "string", v |-> s]
Arr(a) == [t |-> "array", v |-> a]
Num(n) == [t |-> "number", v |-> n]

IsString(x) == x.t = "string"
IsArray(x) == x.t = "array"

\* ToBoolean: undefined, null, "" and 0 are falsy; every array is truthy.
Truthy(x) ==
    CASE x.t = "undefined" -> FALSE
      [] x.t = "null" -> FALSE
      [] x.t = "string" -> x.v # <<>>
      [] x.t = "number" -> x.v # 0
      [] OTHER -> TRUE

\* args?.key: undefined when the bag is absent or lacks the key.
Arg(args, key) ==
    IF args = Undefined THEN Undefined
    ELSE IF key \in DOMAIN args THEN args[key]
    ELSE Undefined

Digits == <<"0", "1", "2", "3", "4", "5", "6", "7", "8", "9">>

RECURSIVE NumToString(_)
\* Number.prototype.toString() of a non-negative integer: decimal digits.
NumToString(n) ==
    IF n < 10 THEN <<Digits[n + 1]>>
    ELSE NumToString(n \div 10) \o <<Digits[(n % 10) + 1]>>

\* Date.prototype.toISOString() of an instant in the first minute of 1970.
ToISOString(ms) ==
    <<"1970-01-01T00:00:">>
        \o <<Digits[((ms \div 10000) % 6) + 1], Digits[((ms \div 1000) % 10) + 1]>>
        \o <<".">>
        \o <<Digits[((ms \div 100) % 10) + 1], Digits[((ms \div 10) % 10) + 1],
             Digits[(ms % 10) + 1]>>
        \o <<"Z">>

\* `${x}` inside a template literal, for the values an id argument takes.
TemplateValue(x) ==
    CASE x.t = "undefined" -> <<"undefined">>
      [] x.t = "null" -> <<"null">>
      [] x.t = "string" -> x.v
      [] x.t = "number" -> NumToString(x.v)
      [] OTHER -> <<"[object]">>

LowerChar(c) ==
    CASE c = "A" -> "a"
      [] c = "B" -> "b"
      [] OTHER -> c

\* String.prototype.toLowerCase on a token sequence.
ToLowerCase(s) == [i \in 1..Len(s) |-> LowerChar(s[i])]

\* String.prototype.includes: q occurs in s as a contiguous substring.
StringIncludes(s, q) ==
    \E i \in 0..(Len(s) - Len(q)) :
        \A j \in 1..Len(q) : s[i + j] = q[j]

\* Array.prototype.includes: some element equals x; values of different
\* types are never equal.
ArrayIncludes(a, x) == \E i \in 1..Len(a) : a[i].t = x.t /\ a[i] = x

\* JSON.stringify of an object: a property whose value is undefined is left out.
Stringify(obj) ==
    [k \in {f \in DOMAIN obj : obj[f] # Undefined} |-> obj[k]]

\* JSON.stringify of an array of objects.
StringifyAll(objs) == [i \in 1..Len(objs) |-> Stringify(objs[i])]

(* ------------------------------ the Map -------------------------------- *)

MapHas(m, key) == \E i \in 1..Len(m) : m[i].key = key

MapIndex(m, key) == CHOOSE i \in 1..Len(m) : m[i].key = key

\* Map.prototype.get: the value stored under key, or undefined.
MapGet(m, key) == IF MapHas(m, key) THEN m[MapIndex(m, key)].value ELSE Undefined

\* A set that removes an existing key and appends the entry at the end.
MapSet_MovesToEnd(m, key, value) ==
    Append(SelectSeq(m, LAMBDA entry : entry.key # key), [key |-> key, value |-> value])

\* Map.prototype.set: an existing key keeps its position and gets the new
\* value; a new key is appended.
MapSet(m, key, value) ==
    IF MapHas(m, key)
    THEN [m EXCEPT ![MapIndex(m, key)] = [key |-> key, value |-> value]]
    ELSE Append(m, [key |-> key, value |-> value])

\* Map.prototype.delete: the entry is removed, the others keep their order.
MapDelete(m, key) ==
    IF MapHas(m, key)
    THEN [i \in 1..(Len(m) - 1) |->
            IF i < MapIndex(m, key) THEN m[i] ELSE m[i + 1]]
    ELSE m

\* Array.from(notes.values())
MapValues(m) == [i \in 1..Len(m) |-> m[i].value]

MapKeys(m) == {m[i].key : i \in 1..Len(m)}

(* ----------------------------- responses ------------------------------- *)

PlainText(s) == [kind |-> "plain", v |-> s]
JsonText(j) == [kind |-> "json", v |-> j]

\* return { content: [ { type: 'text', text } ] }
Success(text) == [content |-> <<[type |-> "text", text |-> text]>>]

\* the catch block: `Error: ${error.message}` with isError: true
Failure(message) ==
    [content |-> <<[type |-> "text", text |-> PlainText(<<"Error: ">> \o message)]>>,
     isError |-> TRUE]

IsError(r) == "isError" \in DOMAIN r /\ r.isError

Returned(result, m) == [threw |-> FALSE, result |-> result, notes |-> m]
Thrown(message, m) == [threw |-> TRUE, message |-> message, notes |-> m]

NotFoundMessage(id) == <<"Note with ID ">> \o TemplateValue(id) \o <<" not found">>

(* --------------------------- tool handlers ----------------------------- *)

\* create_note without the `|| []` default for tags.
create_note_NoTagsDefault(m, args, t1, t2, t3) ==
    LET id == Str(NumToString(t1))
        note == [id |-> id,
                 title |-> Arg(args, "title"),
                 content |-> Arg(args, "content"),
                 tags |-> Arg(args, "tags"),
                 createdAt |-> Str(ToISOString(t2)),
                 updatedAt |-> Str(ToISOString(t3))]
    IN  [threw |-> FALSE,
         result |-> [content |-> <<[type |-> "text",
                        text |-> [kind |-> "plain",
                                  v |-> <<"Note created successfully with ID: ">> \o id.v]]>>],
         notes |-> MapSet(m, id, note)]

\* case 'create_note': t1 is Date.now(), t2 and t3 the two new Date() readings.
create_note(m, args, t1, t2, t3) ==
    LET id == Str(NumToString(t1))
        tags == IF Truthy(Arg(args, "tags")) THEN Arg(args, "tags") ELSE Arr(<<>>)
        note == [id |-> id,
                 title |-> Arg(args, "title"),
                 content |-> Arg(args, "content"),
                 tags |-> tags,
                 createdAt |-> Str(ToISOString(t2)),
                 updatedAt |-> Str(ToISOString(t3))]
    IN  Returned(Success(PlainText(<<"Note created successfully with ID: ">> \o id.v)),
                 MapSet(m, id, note))

\* case 'get_note'
get_note(m, args) ==
    LET id == Arg(args, "id")
        note == MapGet(m, id)
    IN  IF note = Undefined
        THEN Thrown(NotFoundMessage(id), m)
        ELSE Returned(Success(JsonText(Stringify(note))), m)

\* Array.prototype.includes / String.prototype.includes on a note's tags; any
\* other receiver has no includes method and the call throws a TypeError.
HasIncludes(x) == IsArray(x) \/ IsString(x)

Includes(x, item) ==
    IF IsArray(x) THEN ArrayIncludes(x.v, item)
    ELSE StringIncludes(x.v, TemplateValue(item))

NoMethodMessage(x, method) ==
    IF x = Undefined
    THEN <<"Cannot read properties of undefined (reading '", method, "')">>
    ELSE <<method, " is not a function">>

\* case 'list_notes'
list_notes(m, args) ==
    LET tag == Arg(args, "tag")
        all == MapValues(m)
        \* filteredNotes.filter((note) => note.tags.includes(tag))
        Matches(note) == Includes(note.tags, tag)
    IN  IF ~Truthy(tag)
        THEN Returned(Success(JsonText(StringifyAll(all))), m)
        ELSE IF \E i \in 1..Len(all) : ~HasIncludes(all[i].tags)
        THEN Thrown(NoMethodMessage(Num(0), "note.tags.includes"), m)
        ELSE Returned(Success(JsonText(StringifyAll(SelectSeq(all, Matches)))), m)

\* update_note that stamps updatedAt before it looks the note up, and so
\* stores a stub under an id that was absent.
update_note_StampsFirst(m, args, t) ==
    LET id == Arg(args, "id")
        stamped == MapSet(m, id, [id |-> id, updatedAt |-> Str(ToISOString(t))])
    IN  IF MapHas(m, id)
        THEN Returned(Success(PlainText(<<"Note ">> \o TemplateValue(id)
                                          \o <<" updated successfully">>)), m)
        ELSE Thrown(NotFoundMessage(id), stamped)

\* update_note that assigns tags whenever the arguments carry the key.
update_note_AssignsGivenTags(m, args, t) ==
    LET id == Arg(args, "id")
        note == MapGet(m, id)
        n1 == IF Truthy(Arg(args, "title"))
              THEN [note EXCEPT !.title = Arg(args, "title")] ELSE note
        n2 == IF Truthy(Arg(args, "content"))
              THEN [n1 EXCEPT !.content = Arg(args, "content")] ELSE n1
        n3 == IF "tags" \in DOMAIN args
              THEN [n2 EXCEPT !.tags = args.tags] ELSE n2
        n4 == [n3 EXCEPT !.updatedAt = Str(ToISOString(t))]
    IN  IF note = Undefined
        THEN Thrown(NotFoundMessage(id), m)
        ELSE Returned(Success(PlainText(<<"Note ">> \o TemplateValue(id)
                                          \o <<" updated successfully">>)),
                      MapSet(m, id, n4))

\* case 'update_note': t is the new Date() reading.
update_note(m, args, t) ==
    LET id == Arg(args, "id")
        note == MapGet(m, id)
        n1 == IF Truthy(Arg(args, "title"))
              THEN [note EXCEPT !.title = Arg(args, "title")] ELSE note
        n2 == IF Truthy(Arg(args, "content"))
              THEN [n1 EXCEPT !.content = Arg(args, "content")] ELSE n1
        n3 == IF Truthy(Arg(args, "tags"))
              THEN [n2 EXCEPT !.tags = Arg(args, "tags")] ELSE n2
        n4 == [n3 EXCEPT !.updatedAt = Str(ToISOString(t))]
    IN  IF note = Undefined
        THEN Thrown(NotFoundMessage(id), m)
        ELSE Returned(Success(PlainText(<<"Note ">> \o TemplateValue(id)
                                          \o <<" updated successfully">>)),
                      MapSet(m, id, n4))

\* delete_note that reports success without removing the entry.
delete_note_KeepsEntry(m, args) ==
    LET id == Arg(args, "id")
    IN  IF ~MapHas(m, id)
        THEN Thrown(NotFoundMessage(id), m)
        ELSE Returned(Success(PlainText(<<"Note ">> \o TemplateValue(id)
                                          \o <<" deleted successfully">>)), m)

\* case 'delete_note'
delete_note(m, args) ==
    LET id == Arg(args, "id")
    IN  IF ~MapHas(m, id)
        THEN Thrown(NotFoundMessage(id), m)
        ELSE Returned(Success(PlainText(<<"Note ">> \o TemplateValue(id)
                                          \o <<" deleted successfully">>)),
                      MapDelete(m, id))

\* The filter callback of search_notes throws on a note whose title is not a
\* string, and on one whose title does not match and whose content is not a
\* string (|| evaluates its right side only then).
SearchThrows(note, query) ==
    \/ ~IsString(note.title)
    \/ /\ ~StringIncludes(ToLowerCase(note.title.v), query)
       /\ ~IsString(note.content)

SearchThrowMessage(note) ==
    IF ~IsString(note.title)
    THEN NoMethodMessage(note.title, "note.title.toLowerCase")
    ELSE NoMethodMessage(note.content, "note.content.toLowerCase")

SearchMatches(note, query) ==
    \/ StringIncludes(ToLowerCase(note.title.v), query)
    \/ StringIncludes(ToLowerCase(note.content.v), query)

\* A search that writes its matches back over the collection.
search_notes_StoresMatches(m, args) ==
    LET q == Arg(args, "query")
        query == ToLowerCase(q.v)
        Kept(entry) ==
            /\ IsString(entry.value.title)
            /\ IsString(entry.value.content)
            /\ SearchMatches(entry.value, query)
        kept == SelectSeq(m, Kept)
    IN  IF ~IsString(q)
        THEN Thrown(NoMethodMessage(q, "args.query.toLowerCase"), m)
        ELSE Returned(Success(JsonText(StringifyAll(MapValues(kept)))), kept)

\* case 'search_notes'
search_notes(m, args) ==
    LET q == Arg(args, "query")
        all == MapValues(m)
        query == ToLowerCase(q.v)
        Throws(i) == SearchThrows(all[i], query)
        first == CHOOSE i \in 1..Len(all) :
                    Throws(i) /\ \A j \in 1..(i - 1) : ~Throws(j)
        Matches(note) == SearchMatches(note, query)
    IN  IF ~IsString(q)
        THEN Thrown(NoMethodMessage(q, "args.query.toLowerCase"), m)
        ELSE IF \E i \in 1..Len(all) : Throws(i)
        THEN Thrown(SearchThrowMessage(all[first]), m)
        ELSE Returned(Success(JsonText(StringifyAll(SelectSeq(all, Matches)))), m)

ToolNames == {"create_note", "list_notes", "get_note", "update_note",
              "delete_note", "search_notes"}

\* A switch whose default falls through to list_notes instead of throwing.
Dispatch_DefaultLists(m, name, args, t1, t2, t3) ==
    CASE name = "create_note" -> create_note(m, args, t1, t2, t3)
      [] name = "get_note" -> get_note(m, args)
      [] name = "update_note" -> update_note(m, args, t1)
      [] name = "delete_note" -> delete_note(m, args)
      [] name = "search_notes" -> search_notes(m, args)
      [] OTHER -> list_notes(m, args)

\* switch (name) inside try: t1, t2, t3 are the clock readings the case takes.
Dispatch(m, name, args, t1, t2, t3) ==
    CASE name = "create_note" -> create_note(m, args, t1, t2, t3)
      [] name = "list_notes" -> list_notes(m, args)
      [] name = "get_note" -> get_note(m, args)
      [] name = "update_note" -> update_note(m, args, t1)
      [] name = "delete_note" -> delete_note(m, args)
      [] name = "search_notes" -> search_notes(m, args)
      [] OTHER -> Thrown(<<"Unknown tool: ", name>>, m)

\* A catch block that handles only the errors the cases throw themselves and
\* lets a TypeError escape.
CallToolResponse_RethrowsTypeErrors(outcome) ==
    IF ~outcome.threw THEN outcome.result
    ELSE IF outcome.message[1] \in {"Note with ID ", "Unknown tool: "}
    THEN Failure(outcome.message)
    ELSE [error |-> [message |-> outcome.message]]

\* try { switch ... } catch (error) { ... }
CallToolResponse(outcome) ==
    IF outcome.threw THEN Failure(outcome.message) ELSE outcome.result

(* ----------------------- discovery, views, templates ------------------- *)

\* tools/list: the six tools with the parameters and the required list of
\* each inputSchema.
ListToolsResponse ==
    [tools |-> <<
        [name |-> "create_note",
         properties |-> [title |-> "string", content |-> "string", tags |-> "array"],
         required |-> {"title", "content"}],
        [name |-> "list_notes",
         properties |-> [tag |-> "string"],
         required |-> {}],
        [name |-> "get_note",
         properties |-> [id |-> "string"],
         required |-> {"id"}],
        [name |-> "update_note",
         properties |-> [id |-> "string", title |-> "string", content |-> "string",
                         tags |-> "array"],
         required |-> {"id"}],
        [name |-> "delete_note",
         properties |-> [id |-> "string"],
         required |-> {"id"}],
        [name |-> "search_notes",
         properties |-> [query |-> "string"],
         required |-> {"query"}] >>]

\* A catalog from which the summary view was left out.
ListResourcesResponse_OnlyAll ==
    [resources |-> <<
        [uri |-> "notes://all", mimeType |-> "application/json", name |-> "All Notes"] >>]

\* resources/list
ListResourcesResponse ==
    [resources |-> <<
        [uri |-> "notes://all", mimeType |-> "application/json", name |-> "All Notes"],
        [uri |-> "notes://summary", mimeType |-> "text/plain", name |-> "Notes Summary"] >>]

\* A catalog that offers its templates only while there are notes to fill them.
ListPromptsResponse_NeedsNotes ==
    [prompts |-> IF notes = <<>> THEN <<>>
                 ELSE <<[name |-> "summarize_notes",
                         arguments |-> <<[name |-> "tag", required |-> FALSE]>>],
                        [name |-> "organize_notes"]>>]

\* prompts/list
ListPromptsResponse ==
    [prompts |-> <<
        [name |-> "summarize_notes",
         arguments |-> <<[name |-> "tag", required |-> FALSE]>>],
        [name |-> "organize_notes"] >>]

\* A handler that throws outside any try block rejects the request: the
\* client receives an error object with the message and no result.
EnvelopeError(message) == [error |-> [message |-> message]]

IsEnvelopeError(r) == "error" \in DOMAIN r

\* The resource and prompt handlers have no catch block.
Uncaught(outcome) ==
    IF outcome.threw THEN EnvelopeError(outcome.message) ELSE outcome.result

RECURSIVE FlatMapTags(_)
\* allNotes.flatMap((note) => note.tags): a list contributes its elements,
\* any other value contributes itself.
FlatMapTags(all) ==
    IF all = <<>> THEN <<>>
    ELSE (IF IsArray(Head(all).tags) THEN Head(all).tags.v ELSE <<Head(all).tags>>)
            \o FlatMapTags(Tail(all))

RECURSIVE SetOf(_)
\* new Set(array): the distinct values in the order of their first occurrence.
SetOf(s) ==
    IF s = <<>> THEN <<>>
    ELSE LET front == SetOf(SubSeq(s, 1, Len(s) - 1))
         IN  IF ArrayIncludes(front, s[Len(s)]) THEN front
             ELSE Append(front, s[Len(s)])

RECURSIVE Join(_, _)
\* Array.prototype.join: the elements as strings with sep between them.
Join(a, sep) ==
    IF a = <<>> THEN <<>>
    ELSE IF Len(a) = 1 THEN TemplateValue(a[1])
    ELSE TemplateValue(a[1]) \o sep \o Join(Tail(a), sep)

RECURSIVE TrimEnd(_)
\* The end of String.prototype.trim: trailing white space is dropped.
TrimEnd(s) ==
    IF s # <<>> /\ s[Len(s)] \in {" ", "\n"}
    THEN TrimEnd(SubSeq(s, 1, Len(s) - 1))
    ELSE s

CommaSpace == <<",", " ">>

\* case 'notes://summary': the template string, trimmed.
SummaryText(m) ==
    LET allNotes == MapValues(m)
        allTags == SetOf(FlatMapTags(allNotes))
        joined == Join(allTags, CommaSpace)
    IN  TrimEnd(<<"Notes Summary", "\n", "=============", "\n", "Total notes: ">>
                    \o NumToString(Len(allNotes))
                    \o <<"\n", "Unique tags: ">> \o NumToString(Len(allTags))
                    \o <<"\n", "Tags: ">>
                    \o (IF joined # <<>> THEN joined ELSE <<"none">>)
                    \o <<"\n", " ">>)

\* A reader that answers an unknown address with an empty result.
read_resource_EmptyForUnknown(m, uri) ==
    CASE uri = "notes://all" ->
            Returned([contents |-> <<[uri |-> uri, mimeType |-> "application/json",
                                      text |-> JsonText(StringifyAll(MapValues(m)))]>>], m)
      [] uri = "notes://summary" ->
            Returned([contents |-> <<[uri |-> uri, mimeType |-> "text/plain",
                                      text |-> PlainText(SummaryText(m))]>>], m)
      [] OTHER -> Returned([contents |-> <<>>], m)

\* A reader of notes://all that serves the array it built for the request
\* before: the latest entry of the Map is not in it yet.
read_resource_ServesOlderArray(m, uri) ==
    CASE uri = "notes://all" ->
            Returned([contents |-> <<[uri |-> uri, mimeType |-> "application/json",
                                      text |-> JsonText(StringifyAll(MapValues(
                                                    SubSeq(m, 1, Len(m) - 1))))]>>], m)
      [] uri = "notes://summary" ->
            Returned([contents |-> <<[uri |-> uri, mimeType |-> "text/plain",
                                      text |-> PlainText(SummaryText(m))]>>], m)
      [] OTHER -> Thrown(<<"Unknown resource: ", uri>>, m)

\* ReadResourceRequestSchema handler: switch (uri)
read_resource(m, uri) ==
    CASE uri = "notes://all" ->
            Returned([contents |-> <<[uri |-> uri, mimeType |-> "application/json",
                                      text |-> JsonText(StringifyAll(MapValues(m)))]>>], m)
      [] uri = "notes://summary" ->
            Returned([contents |-> <<[uri |-> uri, mimeType |-> "text/plain",
                                      text |-> PlainText(SummaryText(m))]>>], m)
      [] OTHER -> Thrown(<<"Unknown resource: ", uri>>, m)

\* One user message: { role: 'user', content: { type: 'text', text } }
UserMessage(text) ==
    [messages |-> <<[role |-> "user", content |-> [type |-> "text", text |-> text]]>>]

RECURSIVE JoinLines(_, _)
\* Array.prototype.join over rendered blocks.
JoinLines(blocks, sep) ==
    IF blocks = <<>> THEN <<>>
    ELSE IF Len(blocks) = 1 THEN blocks[1]
    ELSE blocks[1] \o sep \o JoinLines(Tail(blocks), sep)

\* `- ${note.title}: ${note.content}`
SummaryLine(note) ==
    <<"- ">> \o TemplateValue(note.title) \o <<": ">> \o TemplateValue(note.content)

\* `ID: ...\nTitle: ...\nContent: ...\nTags: ${note.tags.join(', ')}\n`
OrganizeBlock(note) ==
    <<"ID: ">> \o TemplateValue(note.id) \o <<"\n", "Title: ">>
        \o TemplateValue(note.title) \o <<"\n", "Content: ">>
        \o TemplateValue(note.content) \o <<"\n", "Tags: ">>
        \o Join(note.tags.v, CommaSpace) \o <<"\n">>

\* summarize_notes that filters whenever a tag was given, the empty string
\* included.
summarize_notes_FiltersAnyTag(m, args) ==
    LET tag == Arg(args, "tag")
        all == MapValues(m)
        Matches(note) == Includes(note.tags, tag)
        given == tag # Undefined
        filteredNotes == IF given THEN SelectSeq(all, Matches) ELSE all
        notesText == JoinLines([i \in 1..Len(filteredNotes) |->
                                    SummaryLine(filteredNotes[i])], <<"\n">>)
    IN  IF given /\ \E i \in 1..Len(all) : ~HasIncludes(all[i].tags)
        THEN Thrown(NoMethodMessage(Num(0), "note.tags.includes"), m)
        ELSE Returned(UserMessage(
                <<"Please summarize the following notes">>
                    \o (IF Truthy(tag)
                        THEN <<" tagged with \"">> \o TemplateValue(tag) \o <<"\"">>
                        ELSE <<>>)
                    \o <<":", "\n", "\n">> \o notesText), m)

\* case 'summarize_notes'
summarize_notes(m, args) ==
    LET tag == Arg(args, "tag")
        all == MapValues(m)
        Matches(note) == Includes(note.tags, tag)
        filteredNotes == IF Truthy(tag) THEN SelectSeq(all, Matches) ELSE all
        notesText == JoinLines([i \in 1..Len(filteredNotes) |->
                                    SummaryLine(filteredNotes[i])], <<"\n">>)
    IN  IF Truthy(tag) /\ \E i \in 1..Len(all) : ~HasIncludes(all[i].tags)
        THEN Thrown(NoMethodMessage(Num(0), "note.tags.includes"), m)
        ELSE Returned(UserMessage(
                <<"Please summarize the following notes">>
                    \o (IF Truthy(tag)
                        THEN <<" tagged with \"">> \o TemplateValue(tag) \o <<"\"">>
                        ELSE <<>>)
                    \o <<":", "\n", "\n">> \o notesText), m)

\* case 'organize_notes'
organize_notes(m) ==
    LET allNotes == MapValues(m)
        notesText == JoinLines([i \in 1..Len(allNotes) |-> OrganizeBlock(allNotes[i])],
                               <<"\n", "---", "\n">>)
    IN  IF \E i \in 1..Len(allNotes) : ~IsArray(allNotes[i].tags)
        THEN Thrown(NoMethodMessage(Num(0), "note.tags.join"), m)
        ELSE Returned(UserMessage(
                <<"Here are all my notes:", "\n", "\n">> \o notesText
                    \o <<"\n", "\n", "Please suggest:", "\n",
                         "1. Better tags for organization", "\n",
                         "2. Notes that could be merged", "\n",
                         "3. Missing categories or topics">>), m)

\* GetPromptRequestSchema handler: switch (name)
get_prompt(m, name, args) ==
    CASE name = "summarize_notes" -> summarize_notes(m, args)
      [] name = "organize_notes" -> organize_notes(m)
      [] OTHER -> Thrown(<<"Unknown prompt: ", name>>, m)

(* ------------------------------ actions -------------------------------- *)

\* The argument bag as it arrives: JSON carries no undefined, so a parameter
\* the client leaves out is a key the bag lacks.
Bag(fields) == Stringify(fields)

\* The id a create_note payload reports: the text after the fixed prefix.
ReportedId(response) == Str(Tail(response.content[1].text.v))

\* The handler of one tools/call request, from its first statement to the
\* response.
CallTool(name, args, t1, t2, t3, tEnd) ==
    LET outcome == Dispatch(notes, name, args, t1, t2, t3)
        response == CallToolResponse(outcome)
    IN  /\ notes' = outcome.notes
        /\ clock' = tEnd
        /\ last' = [method |-> "tools/call", name |-> name, args |-> args,
                    response |-> response]
        /\ issuedIds' = IF name = "create_note" /\ ~outcome.threw
                        THEN issuedIds \cup {ReportedId(response)}
                        ELSE issuedIds
        /\ deletedIds' = IF name = "delete_note" /\ ~outcome.threw
                         THEN deletedIds \cup {Arg(args, "id")}
                         ELSE IF name = "create_note" /\ ~outcome.threw
                         THEN deletedIds \ {ReportedId(response)}
                         ELSE deletedIds

\* A tools/call request handled as it arrives: no request waits meanwhile.
CallNow(name, args, t1, t2, t3, tEnd) ==
    /\ CallTool(name, args, t1, t2, t3, tEnd)
    /\ pending' = pending

\* The clock never runs backwards: each reading is at least the one before.
CreateNote(bags) ==
    \E args \in bags :
        \E t1 \in clock..MaxClock : \E t2 \in t1..MaxClock : \E t3 \in t2..MaxClock :
            CallNow("create_note", args, t1, t2, t3, t3)

ListNotes(bags) ==
    \E args \in bags : CallNow("list_notes", args, clock, clock, clock, clock)

GetNote(bags) ==
    \E args \in bags : CallNow("get_note", args, clock, clock, clock, clock)

\* update_note reads the clock only after it has found the note.
UpdateNote(bags) ==
    \E args \in bags :
        \E t \in (IF MapHas(notes, Arg(args, "id")) THEN clock..MaxClock ELSE {clock}) :
            CallNow("update_note", args, t, t, t, t)

DeleteNote(bags) ==
    \E args \in bags : CallNow("delete_note", args, clock, clock, clock, clock)

SearchNotes(bags) ==
    \E args \in bags : CallNow("search_notes", args, clock, clock, clock, clock)

CallUnknownTool(names) ==
    \E name \in names : CallNow(name, Bag([id |-> Undefined]), clock, clock, clock, clock)

\* A request that is not a tools/call: the handler reads and answers.
Answer(request, outcome) ==
    /\ notes' = outcome.notes
    /\ last' = [f \in DOMAIN request \cup {"response"} |->
                    IF f = "response" THEN Uncaught(outcome) ELSE request[f]]
    /\ UNCHANGED <<clock, issuedIds, deletedIds, pending>>

ReadResource(uris) ==
    \E uri \in uris :
        Answer([method |-> "resources/read", uri |-> uri], read_resource(notes, uri))

GetPrompt(requests) ==
    \E r \in requests :
        Answer([method |-> "prompts/get", name |-> r.name, args |-> r.args],
               get_prompt(notes, r.name, r.args))

ListTools == Answer([method |-> "tools/list"], Returned(ListToolsResponse, notes))

ListResources ==
    Answer([method |-> "resources/list"], Returned(ListResourcesResponse, notes))

ListPrompts == Answer([method |-> "prompts/list"], Returned(ListPromptsResponse, notes))

\* Date reads the system's wall clock, which an operator or a time service
\* may set back between two requests.
AdjustClock ==
    /\ \E t \in 1..(clock - 1) : clock' = t
    /\ UNCHANGED <<notes, last, issuedIds, deletedIds, pending>>

\* Every request a client with the given vocabulary can send.
Requests(c) ==
    \/ CreateNote(c.create)
    \/ ListNotes(c.list)
    \/ GetNote(c.ids)
    \/ UpdateNote(c.update)
    \/ DeleteNote(c.ids)
    \/ SearchNotes(c.search)
    \/ CallUnknownTool(c.unknown)
    \/ ReadResource(c.uris)
    \/ GetPrompt(c.prompts)
    \/ ListTools
    \/ ListResources
    \/ ListPrompts

\* A tools/call request arrives while earlier ones still wait for their
\* handler.
Receive(requests) ==
    /\ Len(pending) < MaxPending
    /\ \E r \in requests : pending' = Append(pending, r)
    /\ UNCHANGED <<notes, clock, last, issuedIds, deletedIds>>

\* The clock readings the handler of a request can take: create_note reads the
\* clock, update_note reads it once it has found the note, the others never.
Readings(r) ==
    IF r.name = "create_note"
        \/ (r.name = "update_note" /\ MapHas(notes, Arg(r.args, "id")))
    THEN clock..MaxClock
    ELSE {clock}

\* All waiting handlers start from the collection as it is now, and only what
\* the one started last writes is kept.
HandleNext_LatestWins ==
    /\ pending # <<>>
    /\ \E t \in Readings(pending[Len(pending)]) :
            CallTool(pending[Len(pending)].name, pending[Len(pending)].args, t, t, t, t)
    /\ pending' = <<>>

\* The handler of the request that has waited longest runs from its first
\* statement to its return: its body has no await.
HandleNext ==
    /\ pending # <<>>
    /\ \E t \in Readings(Head(pending)) :
            CallTool(Head(pending).name, Head(pending).args, t, t, t, t)
    /\ pending' = Tail(pending)

Init ==
    /\ notes = <<>>
    /\ clock = 1
    /\ last = [method |-> "none"]
    /\ issuedIds = {}
    /\ deletedIds = {}
    /\ pending = <<>>

(* ------------------------- what clients send --------------------------- *)

IdArgs == {Undefined} \cup {Str(NumToString(t)) : t \in 1..MaxClock}
IdOnlyArgs == {Bag([id |-> id]) : id \in IdArgs}
WithId(fieldBags) ==
    {Bag([id |-> id, title |-> Arg(f, "title"), content |-> Arg(f, "content"),
          tags |-> Arg(f, "tags")]) : id \in IdArgs, f \in fieldBags}

sA == Str(<<"A">>)
sab == Str(<<"a", "b">>)
sb == Str(<<"b">>)
sEmpty == Str(<<>>)

ViewAddresses == {"notes://all", "notes://summary", "notes://bogus"}
OtherPrompts == {[name |-> "organize_notes", args |-> Undefined],
                 [name |-> "summarize", args |-> Undefined]}

\* Any client: well-formed requests, requests that leave required parameters
\* out, and requests that carry a parameter of the wrong shape.
AnyClient ==
    [create |-> {Bag([title |-> sA, content |-> sEmpty, tags |-> Arr(<<sb>>)]),
                 Bag([title |-> sA, content |-> sab]),
                 Bag([title |-> sEmpty, content |-> sab, tags |-> Arr(<<sb, sEmpty>>)]),
                 Bag([title |-> sA, content |-> sab, tags |-> Arr(<<sEmpty>>)]),
                 Bag([content |-> sab, tags |-> Arr(<<>>)]),
                 Bag([title |-> sA, tags |-> Num(5)])},
     update |-> WithId({Bag([id |-> Undefined]),
                        Bag([content |-> sab]),
                        Bag([content |-> sEmpty]),
                        Bag([tags |-> Arr(<<>>)]),
                        Bag([title |-> sEmpty, tags |-> Num(5)]),
                        Bag([title |-> sab, content |-> sA,
                             tags |-> Arr(<<sb, sEmpty>>)])}),
     ids |-> IdOnlyArgs,
     list |-> {Bag([tag |-> tag]) : tag \in {Undefined, sEmpty, sb, Str(<<"B">>)}},
     search |-> {Bag([query |-> q]) : q \in {Undefined, sEmpty, Str(<<"a">>), Str(<<"B">>)}},
     unknown |-> {"create_notes"},
     uris |-> ViewAddresses,
     prompts |-> {[name |-> "summarize_notes", args |-> Bag([tag |-> tag])] :
                    tag \in {Undefined, sEmpty, sb}} \cup OtherPrompts]

\* A client that sends only well-formed requests, with few distinct values.
SmallClient ==
    [create |-> {Bag([title |-> sA, content |-> sab]),
                 Bag([title |-> sA, content |-> sEmpty, tags |-> Arr(<<sb>>)])},
     update |-> WithId({Bag([id |-> Undefined]), Bag([content |-> sab]),
                        Bag([title |-> sb, tags |-> Arr(<<>>)])}),
     ids |-> IdOnlyArgs,
     list |-> {Bag([tag |-> Undefined]), Bag([tag |-> sb])},
     search |-> {Bag([query |-> sEmpty]), Bag([query |-> Str(<<"B">>)])},
     unknown |-> {"create_notes"},
     uris |-> ViewAddresses,
     prompts |-> {[name |-> "summarize_notes", args |-> Bag([tag |-> tag])] :
                    tag \in {Undefined, sEmpty, sb}} \cup OtherPrompts]

\* A client with few distinct values that leaves required parameters out and
\* sends tags that are not a list (a number, null).
FaultyClient ==
    [create |-> {Bag([content |-> sab]),
                 Bag([title |-> sA, content |-> sab, tags |-> Num(5)]),
                 Bag([title |-> sA, content |-> sab, tags |-> Null])},
     update |-> WithId({Bag([id |-> Undefined]), Bag([tags |-> Num(5)]),
                        Bag([tags |-> Null])}),
     ids |-> IdOnlyArgs,
     list |-> {Bag([tag |-> Undefined]), Bag([tag |-> sb])},
     search |-> {Bag([query |-> Undefined]), Bag([query |-> Str(<<"a">>)])},
     unknown |-> {"create_notes"},
     uris |-> ViewAddresses,
     prompts |-> {[name |-> "summarize_notes", args |-> Bag([tag |-> sb])]}
                    \cup OtherPrompts]

Next == Requests(AnyClient)

NextSmall == Requests(SmallClient)

SpecSmall == Init /\ [][NextSmall]_vars

NextFaulty == Requests(FaultyClient)

SpecFaulty == Init /\ [][NextFaulty]_vars

Spec == Init /\ [][Next]_vars

\* The well-formed client on a machine whose clock can be set back.
NextAdjusted == NextSmall \/ AdjustClock

SpecAdjusted == Init /\ [][NextAdjusted]_vars

\* A client that sends tools/call requests without waiting for the answers:
\* creations, and updates and deletions that name the same ids.
QueueClient ==
    {[name |-> "create_note", args |-> Bag([title |-> sA, content |-> sab])]}
        \cup {[name |-> "update_note", args |-> Bag([id |-> id, content |-> sb])] :
                    id \in IdArgs \ {Undefined}}
        \cup {[name |-> "update_note",
               args |-> Bag([id |-> Str(<<"1">>), title |-> sb, tags |-> Arr(<<sb>>)])]}
        \cup {[name |-> "delete_note", args |-> Bag([id |-> id])] :
                    id \in IdArgs \ {Undefined}}

NextPending == Receive(QueueClient) \/ HandleNext

SpecPending == Init /\ [][NextPending]_vars

(* ------------------------------- claims -------------------------------- *)

IsCall(l, name) == l.method = "tools/call" /\ l.name = name

Succeeded(l) == ~IsError(l.response)

\* The text of the one content item of a response.
TextOf(l) == l.response.content[1].text

NoTag == Bag([tag |-> Undefined])

\* What list_notes with no tag returns for a collection.
Listed(m) == list_notes(m, NoTag).result.content[1].text.v

\* What get_note(id) answers for a collection.
Got(m, id) == CallToolResponse(get_note(m, Bag([id |-> id])))

\* C1: the ids reported by create_note in one session are pairwise distinct:
\* no create_note reports an id that an earlier create_note has reported.
C1_IdsPairwiseDistinct ==
    [][(IsCall(last', "create_note") /\ Succeeded(last'))
        => ReportedId(last'.response) \notin issuedIds]_vars

\* C2: create_note never overwrites or removes a live note: each create_note
\* makes list_notes return exactly one note more, and every note stored before
\* the call is returned unchanged by get_note after it.
C2_CreateKeepsLiveNotes ==
    [][(IsCall(last', "create_note") /\ Succeeded(last'))
        => /\ Len(Listed(notes')) = Len(Listed(notes)) + 1
           /\ \A id \in MapKeys(notes) : Got(notes', id) = Got(notes, id)]_vars

\* C3: once delete_note has removed id X, no later create_note assigns X to
\* another note.
C3_DeletedIdNeverReissued ==
    [][(IsCall(last', "create_note") /\ Succeeded(last'))
        => ReportedId(last'.response) \notin deletedIds]_vars

\* The create_note arguments the round trip is about: a title and a content
\* that are strings, and tags that are a list of strings or left out.
WellFormedCreate(args) ==
    /\ IsString(Arg(args, "title"))
    /\ IsString(Arg(args, "content"))
    /\ \/ "tags" \notin DOMAIN args
       \/ /\ IsArray(args.tags)
          /\ \A i \in 1..Len(args.tags.v) : IsString(args.tags.v[i])

\* C4: create_note(title, content, tags) followed at once by get_note of the
\* reported id succeeds and returns the title, content and tags given, with
\* tags the empty list when they were left out.
C4_RoundTrip ==
    [][(/\ IsCall(last, "create_note")
        /\ WellFormedCreate(last.args)
        /\ IsCall(last', "get_note")
        /\ Arg(last'.args, "id") = ReportedId(last.response))
        => /\ Succeeded(last')
           /\ TextOf(last').kind = "json"
           /\ {"title", "content", "tags"} \subseteq DOMAIN TextOf(last').v
           /\ TextOf(last').v.title = last.args.title
           /\ TextOf(last').v.content = last.args.content
           /\ TextOf(last').v.tags =
                (IF "tags" \in DOMAIN last.args THEN last.args.tags ELSE Arr(<<>>))]_vars

\* A get_note answered with a note that was created without tags and never
\* updated: it carries the empty list.
C4_Witness ==
    /\ IsCall(last, "get_note")
    /\ Succeeded(last)
    /\ TextOf(last).v.tags = Arr(<<>>)
    /\ TextOf(last).v.title = sA
    /\ TextOf(last).v.content = sab
    /\ TextOf(last).v.createdAt = TextOf(last).v.updatedAt

UpdateFields == {"title", "content", "tags"}

\* A step in which update_note found its note and answered with success.
UpdatedStep == IsCall(last', "update_note") /\ Succeeded(last')

\* C5: a successful update_note leaves every field it was not given unchanged
\* and never changes id or createdAt; given only content X, it leaves title
\* and tags unchanged and makes content equal X.
C5_UpdatePartiality ==
    [][UpdatedStep =>
        LET args == last'.args
            before == MapGet(notes, args.id)
            after == MapGet(notes', args.id)
        IN  /\ after.id = before.id
            /\ after.createdAt = before.createdAt
            /\ \A f \in UpdateFields \ DOMAIN args : after[f] = before[f]
            /\ (DOMAIN args = {"id", "content"}
                    => /\ after.title = before.title
                       /\ after.tags = before.tags
                       /\ after.content = args.content)]_vars

\* C6: update_note overwrites each of title, content and tags that the
\* arguments carry with the value carried, the empty string and the empty
\* list included.
C6_UpdateOverwritesSupplied ==
    [][UpdatedStep =>
        LET args == last'.args
            after == MapGet(notes', args.id)
        IN  \A f \in UpdateFields \cap DOMAIN args : after[f] = args[f]]_vars

IdTools == {"get_note", "update_note", "delete_note"}

IsIdCall(l) == l.method = "tools/call" /\ l.name \in IdTools

\* The envelope of a NotFound failure, written out.
NotFoundEnvelope(id) ==
    [content |-> <<[type |-> "text",
                    text |-> [kind |-> "plain",
                              v |-> <<"Error: ", "Note with ID ">>
                                        \o TemplateValue(id) \o <<" not found">>]]>>,
     isError |-> TRUE]

\* C7: delete_note of a live id succeeds with 'Note {id} deleted successfully',
\* and every get_note, update_note and delete_note of that id issued afterwards,
\* with no create_note producing the id in between, fails with NotFound.
C7_DeleteThenNotFound ==
    [][/\ (IsCall(last', "delete_note") /\ MapHas(notes, Arg(last'.args, "id")))
            => /\ Succeeded(last')
               /\ TextOf(last') =
                    [kind |-> "plain",
                     v |-> <<"Note ">> \o last'.args.id.v \o <<" deleted successfully">>]
       /\ (IsIdCall(last') /\ Arg(last'.args, "id") \in deletedIds)
            => last'.response = NotFoundEnvelope(last'.args.id)]_vars

\* A get_note of an id that delete_note removed, answered with an error.
C7_Witness ==
    /\ IsCall(last, "get_note")
    /\ Arg(last.args, "id") \in deletedIds
    /\ IsError(last.response)

\* C8: get_note, update_note and delete_note with an id that is not in the
\* collection answer with the in-band error envelope 'Error: Note with ID {id}
\* not found' and leave the collection as it was.
C8_NotFoundLeavesStore ==
    [][(IsIdCall(last') /\ ~MapHas(notes, Arg(last'.args, "id")))
        => /\ last'.response = NotFoundEnvelope(Arg(last'.args, "id"))
           /\ Len(last'.response.content) = 1
           /\ notes' = notes]_vars

\* An update_note that carried a field, named an absent id and failed while
\* the collection held a note.
C8_Witness ==
    /\ IsCall(last, "update_note")
    /\ "content" \in DOMAIN last.args
    /\ IsError(last.response)
    /\ ~MapHas(notes, Arg(last.args, "id"))
    /\ notes # <<>>

\* Tag T is an element of the note's tags.
CarriesTag(note, tag) ==
    IsArray(note.tags) /\ \E i \in 1..Len(note.tags.v) : note.tags.v[i] = tag

\* C9: list_notes(tag=T), for any string T, the empty string included, returns
\* exactly the notes whose tags contain T as an element, and an empty array
\* when there are none.
C9_TagFilterExact ==
    (IsCall(last, "list_notes") /\ IsString(Arg(last.args, "tag")))
        => /\ Succeeded(last)
           /\ TextOf(last).kind = "json"
           /\ TextOf(last).v =
                StringifyAll(SelectSeq(MapValues(notes),
                                       LAMBDA note : CarriesTag(note, last.args.tag)))

\* q is a substring of s when letter case is ignored.
SubstringIgnoringCase(q, s) ==
    /\ IsString(s)
    /\ \E i \in 0..(Len(s.v) - Len(q.v)) :
        \A j \in 1..Len(q.v) : LowerChar(s.v[i + j]) = LowerChar(q.v[j])

\* C10: search_notes(query=Q), for any string Q, returns exactly the notes
\* that have Q as a case-insensitive substring of the title or of the content;
\* tags are not matched, and the empty query returns every note.
C10_SearchExact ==
    (IsCall(last, "search_notes") /\ IsString(Arg(last.args, "query")))
        => /\ Succeeded(last)
           /\ TextOf(last).kind = "json"
           /\ TextOf(last).v =
                StringifyAll(SelectSeq(MapValues(notes),
                    LAMBDA note : \/ last.args.query = Str(<<>>)
                                  \/ SubstringIgnoringCase(last.args.query, note.title)
                                  \/ SubstringIgnoringCase(last.args.query, note.content)))

RegisteredViews == {"notes://all", "notes://summary"}
RegisteredPrompts == {"summarize_notes", "organize_notes"}

\* A tools/call that must fail: an unknown name, or an id tool with an id the
\* collection lacks.
MustFail(m, l) ==
    \/ l.name \notin ToolNames
    \/ l.name \in IdTools /\ ~MapHas(m, Arg(l.args, "id"))

\* The message carries the word as one of its tokens.
Mentions(message, word) == \E i \in 1..Len(message) : message[i] = word

InputSchema(name) ==
    LET tools == ListToolsResponse.tools
    IN  tools[CHOOSE i \in 1..Len(tools) : tools[i].name = name]

HasShape(x, shape) ==
    IF shape = "string" THEN IsString(x) ELSE IsArray(x)

\* The argument bag lacks a required parameter of the tool, or carries a
\* declared parameter whose value has another shape than the one declared.
BreaksInputContract(name, args) ==
    LET schema == InputSchema(name)
    IN  \/ \E k \in schema.required : k \notin DOMAIN args
        \/ \E k \in DOMAIN args \cap DOMAIN schema.properties :
                ~HasShape(args[k], schema.properties[k])

\* C14: a tools/call of one of the six tools whose argument bag lacks a
\* required parameter or carries a parameter of the wrong shape fails, and the
\* collection is left unchanged: no note is created or modified by it.
C14_InvalidArgumentsRejected ==
    [][(/\ last'.method = "tools/call"
        /\ last'.name \in ToolNames
        /\ BreaksInputContract(last'.name, last'.args))
        => /\ IsError(last'.response) \/ IsEnvelopeError(last'.response)
           /\ notes' = notes]_vars

DigitValue(c) == CHOOSE d \in 0..9 : Digits[d + 1] = c

\* Date.parse of a toISOString text of the first minute of 1970: milliseconds.
DateParse(s) ==
    (DigitValue(s[2]) * 10 + DigitValue(s[3])) * 1000
        + DigitValue(s[5]) * 100 + DigitValue(s[6]) * 10 + DigitValue(s[7])

\* C15: in every reachable state every note of the collection has
\* createdAt <= updatedAt, whatever create_note and update_note calls were
\* made and whatever the clock read when they took their readings.
C15_CreatedNotAfterUpdated ==
    \A i \in 1..Len(notes) :
        DateParse(notes[i].value.createdAt.v) <= DateParse(notes[i].value.updatedAt.v)

\* Every note carries a list of strings as its tags.
TagsAreLists(m) ==
    \A i \in 1..Len(m) :
        /\ IsArray(m[i].value.tags)
        /\ \A j \in 1..Len(m[i].value.tags.v) : IsString(m[i].value.tags.v[j])

\* The distinct tag values over all notes.
DistinctTags(m) ==
    UNION {{m[i].value.tags.v[j] : j \in 1..Len(m[i].value.tags.v)} : i \in 1..Len(m)}

\* The orders in which a set of values can be written down once each.
Orderings(S) ==
    {s \in [1..Cardinality(S) -> S] :
        \A i, j \in 1..Cardinality(S) : i # j => s[i] # s[j]}

\* The summary the specification describes, with the tags in the given order.
ExpectedSummary(m, order) ==
    <<"Notes Summary", "\n", "=============", "\n", "Total notes: ">>
        \o NumToString(Len(m))
        \o <<"\n", "Unique tags: ">> \o NumToString(Cardinality(DistinctTags(m)))
        \o <<"\n", "Tags: ">>
        \o (IF order = <<>> THEN <<"none">> ELSE Join(order, CommaSpace))

IsSummaryRead(l) == l.method = "resources/read" /\ l.uri = "notes://summary"

\* C16: in every reachable state, notes://summary reports 'Total notes' equal
\* to the number of notes, 'Unique tags' equal to the number of distinct tag
\* values over all notes, and 'Tags' equal to those distinct values joined by
\* ', ' ('none' when there is no tag).
C16_SummaryCounts ==
    (IsSummaryRead(last) /\ TagsAreLists(notes))
        => /\ DOMAIN last.response = {"contents"}
           /\ \E order \in Orderings(DistinctTags(notes)) :
                last.response.contents[1].text = PlainText(ExpectedSummary(notes, order))

Mutators == {"create_note", "update_note", "delete_note"}

\* The request just answered was a create_note, update_note or delete_note
\* that succeeded.
MutatorSucceeded(l) ==
    /\ l.method = "tools/call"
    /\ l.name \in Mutators
    /\ Succeeded(l)

\* C17: the collection is changed only by a successful create_note,
\* update_note or delete_note: list_notes, get_note, search_notes,
\* resources/read, prompts/get, the three discovery requests and every failing
\* tools/call leave the notes and every attribute of every note as they were.
C17_OnlyMutatorsChange ==
    [][~MutatorSucceeded(last') => notes' = notes]_vars

\* The organize_notes template was rendered over a non-empty collection.
C17_Witness ==
    /\ last.method = "prompts/get"
    /\ last.name = "organize_notes"
    /\ ~IsEnvelopeError(last.response)
    /\ notes # <<>>

\* name of every element of a catalog, in order
NamesOf(catalog) == [i \in 1..Len(catalog) |-> catalog[i].name]

\* C18: the answers to tools/list, resources/list and prompts/list are the
\* same in every reachable state, whatever the collection holds and whatever
\* was requested before: the same six tools, two views and two templates.
C18_CatalogConstant ==
    /\ last.method = "tools/list"
        => NamesOf(last.response.tools) =
            <<"create_note", "list_notes", "get_note", "update_note", "delete_note",
              "search_notes">>
    /\ last.method = "resources/list"
        => [i \in 1..Len(last.response.resources) |-> last.response.resources[i].uri] =
            <<"notes://all", "notes://summary">>
    /\ last.method = "prompts/list"
        => NamesOf(last.response.prompts) = <<"summarize_notes", "organize_notes">>

\* prompts/list was answered in the initial, empty collection after a note
\* had been created and deleted again.
C18_Witness ==
    /\ last.method = "prompts/list"
    /\ notes = <<>>
    /\ deletedIds # {}
    /\ Len(last.response.prompts) = 2

\* The notes of a occur in b in the same relative order; a note is known by
\* its id.
IsSubsequence(a, b) ==
    \E f \in [1..Len(a) -> 1..Len(b)] :
        /\ \A i \in 1..Len(a) : a[i].id = b[f[i]].id
        /\ \A i, j \in 1..Len(a) : i < j => f[i] < f[j]

\* A list_notes with a tag or a search_notes that answered with an array.
FilteredStep(l) ==
    /\ \/ IsCall(l, "list_notes") /\ Truthy(Arg(l.args, "tag"))
       \/ IsCall(l, "search_notes")
    /\ Succeeded(l)

\* C19: list_notes returns the live notes in the order of their creation: a
\* create_note puts its note after every note listed before, which stay in the
\* list in their order (create A, create B: A is listed before B);
\* list_notes(tag) and search_notes return their matches in that same relative
\* order; after delete_note of a live id the list is the earlier list without
\* that note.
C19_CreationOrder ==
    [][/\ (IsCall(last', "create_note") /\ Succeeded(last'))
            => /\ Len(Listed(notes')) = Len(Listed(notes)) + 1
               /\ SubSeq(Listed(notes'), 1, Len(Listed(notes))) = Listed(notes)
               /\ Listed(notes')[Len(Listed(notes'))].id = ReportedId(last'.response)
       /\ FilteredStep(last') => IsSubsequence(TextOf(last').v, Listed(notes'))
       /\ (IsCall(last', "delete_note") /\ Succeeded(last'))
            => Listed(notes') =
                SelectSeq(Listed(notes), LAMBDA note : note.id # last'.args.id)]_vars

\* A list_notes, or a search_notes whose query is a string.
IsListingCall(l) ==
    \/ IsCall(l, "list_notes")
    \/ IsCall(l, "search_notes") /\ IsString(Arg(l.args, "query"))

\* C20: list_notes, with or without a tag, and search_notes with a query
\* string never fail: in every reachable state, the states holding notes that
\* were accepted with a missing or malformed title, content or tags included,
\* they answer with a success envelope that carries a JSON array.
C20_ListAndSearchNeverFail ==
    IsListingCall(last)
        => /\ Succeeded(last)
           /\ Len(last.response.content) = 1
           /\ TextOf(last).kind = "json"

\* C21: in every reachable state every note of the collection has a title
\* that is a non-empty text: no accepted sequence of create_note and
\* update_note calls stores a note whose title is empty or absent.
C21_TitleNonEmpty ==
    \A i \in 1..Len(notes) :
        /\ IsString(notes[i].value.title)
        /\ notes[i].value.title.v # <<>>

ListedTools == {ListToolsResponse.tools[i].name : i \in 1..Len(ListToolsResponse.tools)}

ListedViews ==
    {ListResourcesResponse.resources[i].uri : i \in 1..Len(ListResourcesResponse.resources)}

ListedPrompts ==
    {ListPromptsResponse.prompts[i].name : i \in 1..Len(ListPromptsResponse.prompts)}

\* The answer refuses the request as unknown: in band for a tool, at the
\* envelope level for a view or a template.
SaysUnknown(l) ==
    CASE l.method = "tools/call" ->
            /\ IsError(l.response)
            /\ TextOf(l).v = <<"Error: ", "Unknown tool: ", l.name>>
      [] l.method = "resources/read" ->
            /\ IsEnvelopeError(l.response)
            /\ l.response.error.message = <<"Unknown resource: ", l.uri>>
      [] l.method = "prompts/get" ->
            /\ IsEnvelopeError(l.response)
            /\ l.response.error.message = <<"Unknown prompt: ", l.name>>
      [] OTHER -> FALSE

\* C23: registry and dispatcher agree: a tool name is refused as unknown
\* exactly when tools/list does not name it, a view address exactly when
\* resources/list does not name it, and a template name exactly when
\* prompts/list does not name it.
C23_RegistryMatchesDispatch ==
    /\ last.method = "tools/call" => (SaysUnknown(last) <=> last.name \notin ListedTools)
    /\ last.method = "resources/read" => (SaysUnknown(last) <=> last.uri \notin ListedViews)
    /\ last.method = "prompts/get" => (SaysUnknown(last) <=> last.name \notin ListedPrompts)

\* The template name 'summarize', which prompts/list does not offer, was
\* refused as unknown.
C23_Witness ==
    /\ last.method = "prompts/get"
    /\ last.name = "summarize"
    /\ SaysUnknown(last)

\* C24: update_note of an existing id with none of title, content and tags
\* supplied succeeds with 'Note {id} updated successfully' and sets updatedAt
\* to the clock reading of the call; after every successful update_note the
\* note's updatedAt is greater than or equal to its value before the call.
C24_UpdateRefreshesStamp ==
    [][/\ (/\ IsCall(last', "update_note")
           /\ DOMAIN last'.args = {"id"}
           /\ MapHas(notes, last'.args.id))
            => /\ Succeeded(last')
               /\ TextOf(last') =
                    [kind |-> "plain",
                     v |-> <<"Note ">> \o last'.args.id.v \o <<" updated successfully">>]
               /\ MapGet(notes', last'.args.id).updatedAt = Str(ToISOString(clock'))
       /\ UpdatedStep
            => DateParse(MapGet(notes', last'.args.id).updatedAt.v)
                >= DateParse(MapGet(notes, last'.args.id).updatedAt.v)]_vars

\* C25: in every reachable state every note has a tags attribute that is
\* neither null nor absent: create_note without tags stores the empty list,
\* and no accepted update_note makes tags null or absent.
C25_TagsPresent ==
    \A i \in 1..Len(notes) :
        /\ "tags" \in DOMAIN notes[i].value
        /\ notes[i].value.tags.t \notin {"undefined", "null"}
        /\ "tags" \in DOMAIN Stringify(notes[i].value)

\* An update_note that carried tags: null succeeded while a note created with
\* tags: null was stored with the empty list.
C25_Witness ==
    /\ IsCall(last, "update_note")
    /\ Succeeded(last)
    /\ "tags" \in DOMAIN last.args
    /\ last.args.tags.t = "null"
    /\ \E i \in 1..Len(notes) :
            IsArray(notes[i].value.tags) /\ notes[i].value.tags.v = <<>>

\* A field of a note as JSON carries it: undefined when the key is absent.
Field(json, f) == IF f \in DOMAIN json THEN json[f] ELSE Undefined

RECURSIVE Lines(_)
\* The notes one per line, each as '- {title}: {content}'.
Lines(jsonNotes) ==
    IF jsonNotes = <<>> THEN <<>>
    ELSE <<"- ">> \o TemplateValue(Field(Head(jsonNotes), "title"))
            \o <<": ">> \o TemplateValue(Field(Head(jsonNotes), "content"))
            \o (IF Len(jsonNotes) = 1 THEN <<>> ELSE <<"\n">> \o Lines(Tail(jsonNotes)))

IsSummarize(l) == l.method = "prompts/get" /\ l.name = "summarize_notes"

\* The text of the one message of a prompts/get answer.
PromptText(l) == l.response.messages[1].content.text

\* C26: for every tag argument (absent, the empty string, any string) and
\* every reachable collection, the notes that prompts/get summarize_notes(tag)
\* renders are exactly the notes that list_notes(tag) returns, in the same
\* order, each as '- {title}: {content}' and joined by newlines.
C26_SummarizeFiltersAsList ==
    IsSummarize(last) =>
        LET tag == Arg(last.args, "tag")
            listed == list_notes(notes, Bag([tag |-> tag]))
            rendered == Lines(listed.result.content[1].text.v)
        IN  /\ IsEnvelopeError(last.response) <=> listed.threw
            /\ ~listed.threw =>
                /\ Len(PromptText(last)) >= Len(rendered) + 3
                /\ SubSeq(PromptText(last),
                          Len(PromptText(last)) - Len(rendered) + 1,
                          Len(PromptText(last))) = rendered
                /\ SubSeq(PromptText(last),
                          Len(PromptText(last)) - Len(rendered) - 2,
                          Len(PromptText(last)) - Len(rendered)) = <<":", "\n", "\n">>

\* summarize_notes with tag 'b' rendered one of two stored notes.
C26_Witness ==
    /\ IsSummarize(last)
    /\ Arg(last.args, "tag") = sb
    /\ ~IsEnvelopeError(last.response)
    /\ Len(notes) = 2
    /\ Len(list_notes(notes, last.args).result.content[1].text.v) = 1

IsAllRead(l) == l.method = "resources/read" /\ l.uri = "notes://all"

\* The array that notes://all answered with.
AllText(l) == l.response.contents[1].text

\* C27: reads are never stale: right after any sequence of changes,
\* notes://all returns the same JSON array as list_notes without a tag, and
\* the array holds exactly the notes that are in the collection now, with
\* their current attributes; a note that the request before deleted or
\* updated is already absent or updated.
C27_AllViewIsCurrent ==
    [][IsAllRead(last') =>
        /\ DOMAIN last'.response = {"contents"}
        /\ Len(last'.response.contents) = 1
        /\ AllText(last').kind = "json"
        /\ AllText(last').v = Listed(notes')
        /\ Len(AllText(last').v) = Len(notes')
        /\ \A i \in 1..Len(notes') :
            /\ AllText(last').v[i].id = notes'[i].key
            /\ \A f \in DOMAIN AllText(last').v[i] :
                    AllText(last').v[i][f] = notes'[i].value[f]
        /\ (IsCall(last, "delete_note") /\ Succeeded(last))
            => \A i \in 1..Len(AllText(last').v) : AllText(last').v[i].id # last.args.id
        /\ (IsCall(last, "update_note") /\ Succeeded(last))
            => \E i \in 1..Len(AllText(last').v) :
                /\ AllText(last').v[i].id = last.args.id
                /\ AllText(last').v[i].updatedAt = Str(ToISOString(clock))]_vars

\* notes://all answered with two notes, one of them updated since its creation.
C27_Witness ==
    /\ IsAllRead(last)
    /\ Len(AllText(last).v) = 2
    /\ \E i \in 1..2 : AllText(last).v[i].updatedAt # AllText(last).v[i].createdAt

\* C28: prompts/get with a registered name never fails in any reachable
\* state: summarize_notes and organize_notes answer with one user-role
\* message (with an empty note list when no note matches or the collection is
\* empty) for every collection that accepted create_note and update_note
\* calls can produce.
C28_TemplatesNeverFail ==
    (last.method = "prompts/get" /\ last.name \in RegisteredPrompts)
        => /\ DOMAIN last.response = {"messages"}
           /\ Len(last.response.messages) = 1
           /\ last.response.messages[1].role = "user"

\* The ids of the collection in list_notes order.
IdOrder(m) == [i \in 1..Len(m) |-> m[i].key]

\* C29: a successful update_note(id, ...) or delete_note(id) affects only the
\* note with that id: every other note keeps all its attributes and its
\* relative position in list_notes, an updated note keeps its own position,
\* and delete_note reduces the number of notes by exactly one.
C29_OnlyNamedNoteAffected ==
    [][/\ UpdatedStep
            => /\ IdOrder(notes') = IdOrder(notes)
               /\ \A i \in 1..Len(notes) :
                    notes[i].key # last'.args.id => notes'[i] = notes[i]
       /\ (IsCall(last', "delete_note") /\ Succeeded(last'))
            => /\ Len(notes') = Len(notes) - 1
               /\ Len(Listed(notes')) = Len(Listed(notes)) - 1
               /\ IdOrder(notes') =
                    SelectSeq(IdOrder(notes), LAMBDA id : id # last'.args.id)
               /\ \A id \in MapKeys(notes) \ {last'.args.id} :
                    MapGet(notes', id) = MapGet(notes, id)]_vars

\* update_note succeeded on the first of two stored notes.
C29_Witness ==
    /\ IsCall(last, "update_note")
    /\ Succeeded(last)
    /\ Len(notes) = 2
    /\ notes[1].key = last.args.id
    /\ notes[1].value.updatedAt # notes[1].value.createdAt

\* The place of a label in the summary text.
LabelAt(text, label) == CHOOSE i \in 1..Len(text) : text[i] = label

\* The digits that follow 'Unique tags: ' are the single digit 0.
CountIsZero(text) ==
    /\ text[LabelAt(text, "Unique tags: ") + 1] = "0"
    /\ text[LabelAt(text, "Unique tags: ") + 2] = "\n"

\* What follows 'Tags: ' up to the end of the summary.
TagsLine(text) == SubSeq(text, LabelAt(text, "Tags: ") + 1, Len(text))

\* C30: in every reachable state the 'Tags:' line of notes://summary reads
\* 'none' exactly when the 'Unique tags' count of the same summary is 0;
\* whenever a note carries a tag, the empty string included, the line lists
\* the tags and the count is positive.
C30_NoneIffNoTags ==
    IsSummaryRead(last) =>
        LET text == last.response.contents[1].text.v
        IN  /\ (TagsLine(text) = <<"none">>) <=> CountIsZero(text)
            /\ (TagsAreLists(notes) /\ DistinctTags(notes) # {})
                => /\ ~CountIsZero(text)
                   /\ TagsLine(text) # <<"none">>

====
